---------------------------- MODULE Spec2Model ----------------------------
(***************************************************************************)
(* A model of framous: FramedRead / FramedWrite / Framed (src/src/framed.rs)*)
(* driven over a byte source and a byte sink, with the length-prefixed     *)
(* TestCodec of the crate's tests as the user-supplied Decoder / Encoder.  *)
(***************************************************************************)
EXTENDS Integers, Sequences, FiniteSets, TLC

VARIABLES
    \* ---- FramedRead<R, D> -------------------------------------------------
    decoder,     \* D: which Decoder implementation the reader owns
    stream,      \* R: every byte the source will ever deliver
    pos,         \* R: bytes of stream delivered so far
    buf,         \* FramedRead.buf, the accumulator
    rpc,         \* position inside framed_read: "none" (not constructed),
                 \* "idle", "read", "decode"
    bytes_read,  \* the local bytes_read of the last successful read
    rres,        \* result of the last framed_read call that returned
    out,         \* history: decoder outcomes returned by framed_read, in order
    ncalls,      \* history: framed_read calls started
    callReads,   \* history: inner.read calls of the current framed_read call
                 \* that returned Ok(n)
    rerrs,       \* history: inner.read calls that returned Err
    decErr,      \* history: some decode call has returned Err
    \* ---- FramedWrite<W, E> ------------------------------------------------
    encoder,     \* E: which Encoder implementation the writer owns
    wpc,         \* position inside framed_write: "idle", "write", "flush"
    item,        \* the item of the current / last framed_write call
    dst,         \* the local scratch buffer dst
    sink,        \* W: bytes the sink has accepted
    sinkOps,     \* history: write / flush invocations on the sink, tagged with the call
    wres,        \* result of the last framed_write call that returned
    sent,        \* history: items of the framed_write calls that returned Ok
    wcalls,      \* history: framed_write calls started
    sink0,       \* history: contents of the sink when the current call started
    accepted,    \* the (discarded) return value of inner.write in the current call
    \* ---- Framed<R, W, D, E> ----------------------------------------------
    owner,       \* who owns the reader and the writer: "pair" (a Framed),
                 \* "halves" (a FramedRead and a FramedWrite on their own)
    splitBuf,    \* history: the accumulator of the FramedRead that split returned
    \* ---- the source as seen by a second loop over the same reads ----------
    log,         \* history: the result of every inner.read call so far
    results,     \* history: the result of every framed_read call that returned
    apc,         \* position inside the extraction-first loop: "idle",
                 \* "decode", "read"
    abuf,        \* its accumulator
    ai,          \* how many of the logged reads it has performed
    aresults     \* the result of every call of it that returned

rvars == <<decoder, stream, pos, buf, rpc, bytes_read, rres, out, ncalls,
           callReads, rerrs, decErr>>
wvars == <<encoder, wpc, item, dst, sink, sinkOps, wres, sent, wcalls, sink0,
           accepted>>
fvars == <<owner, splitBuf>>
avars == <<log, results, apc, abuf, ai, aresults>>
vars == <<rvars, wvars, fvars, avars>>

---------------------------------------------------------------------------
\* Bounds of the model
MaxStream == 4      \* longest source stream
MaxCalls == 3       \* framed_read calls per reader
MaxReads == 4       \* inner.read calls that return Ok inside one framed_read
MaxReadErrs == 1    \* inner.read calls that return Err
MaxWCalls == 2      \* framed_write calls per writer

\* Byte values the source may deliver (u8 values, a small alphabet)
ByteVals == {0, 1, 2, 3}
\* Items handed to framed_write
U8Vals == {12, 255}
U16Vals == {384, 1234, 65535}

---------------------------------------------------------------------------
\* TestMsg
U8(v) == [tag |-> "U8", val |-> v]
U16(v) == [tag |-> "U16", val |-> v]
Unrecognised == [tag |-> "Unrecognised", val |-> 0]
NoItem == [tag |-> "-", val |-> 0]

Tail2(s, n) == SubSeq(s, n + 1, Len(s))   \* s with its first n elements removed

\* Big-endian u16 of two bytes (Buf::get_u16) and its inverse (BufMut::put_u16)
get_u16(hi, lo) == (256 * hi + lo) % 65536
put_u16(v) == << (v \div 256) % 256, v % 256 >>

\* The match on msg_len of TestCodec::decode; msg is the split-off payload
TestItem(msg_len, msg) ==
    CASE msg_len = 1 -> U8(msg[1])
      [] msg_len = 2 -> U16(get_u16(msg[1], msg[2]))
      [] OTHER -> Unrecognised

\* TestCodec::decode: [res, item, buf] where buf is src after the call
TestDecode(src) ==
    IF Len(src) < 1 THEN [res |-> "None", item |-> NoItem, buf |-> src]
    ELSE LET msg_len == src[1] IN
         IF Len(src) < msg_len + 1
         THEN [res |-> "None", item |-> NoItem, buf |-> src]
         ELSE LET adv == Tail2(src, 1)
                  msg == SubSeq(adv, 1, msg_len)
              IN  [res |-> "Some", item |-> TestItem(msg_len, msg),
                   buf |-> Tail2(adv, msg_len)]

\* A Decoder that uses the Err outcome of the trait: the same framing as
\* TestCodec, but a frame of unknown length byte is an error, not an item.
StrictDecode(src) ==
    LET d == TestDecode(src) IN
    IF d.res = "Some" /\ d.item = Unrecognised
    THEN [res |-> "Err", item |-> NoItem, buf |-> d.buf]
    ELSE d

\* self.decoder.decode(&mut self.buf)
Decode(d, src) == IF d = "TestCodec" THEN TestDecode(src) ELSE StrictDecode(src)

---------------------------------------------------------------------------
\* FramedRead::new over a source that will deliver s
NewRead(s, d) ==
    /\ decoder = d
    /\ stream = s
    /\ pos = 0
    /\ buf = << >>
    /\ rpc = "idle"
    /\ bytes_read = 0
    /\ rres = [kind |-> "none", item |-> NoItem]
    /\ out = << >>
    /\ ncalls = 0
    /\ callReads = 0
    /\ rerrs = 0
    /\ decErr = FALSE

\* Mutant of ReadCall: the loop attempts extraction before its first read
ReadCallDecodeFirst ==
    /\ rpc = "idle"
    /\ ncalls < MaxCalls
    /\ rpc' = "decode"
    /\ ncalls' = ncalls + 1
    /\ callReads' = 0
    /\ UNCHANGED <<decoder, stream, pos, buf, bytes_read, rres, out, rerrs,
                   decErr>>

\* entry of framed_read: let mut src = [0u8; INITIAL_CAPACITY]; loop {
ReadCall ==
    /\ rpc = "idle"
    /\ ncalls < MaxCalls
    /\ rpc' = "read"
    /\ ncalls' = ncalls + 1
    /\ callReads' = 0
    /\ UNCHANGED <<decoder, stream, pos, buf, bytes_read, rres, out, rerrs,
                   decErr>>

\* Mutant of ReadData: the chunk replaces the accumulator instead of being
\* appended to it
ReadDataOverwrite ==
    /\ rpc = "read"
    /\ callReads < MaxReads
    /\ pos < Len(stream)
    /\ \E n \in 1..(Len(stream) - pos) :
          /\ bytes_read' = n
          /\ buf' = SubSeq(stream, pos + 1, pos + n)
          /\ pos' = pos + n
    /\ callReads' = callReads + 1
    /\ rpc' = "decode"
    /\ UNCHANGED <<decoder, stream, rres, out, ncalls, rerrs, decErr>>

\* Mutant of ReadData: the chunk is put in front of the accumulator
ReadDataPrepend ==
    /\ rpc = "read"
    /\ callReads < MaxReads
    /\ pos < Len(stream)
    /\ \E n \in 1..(Len(stream) - pos) :
          /\ bytes_read' = n
          /\ buf' = SubSeq(stream, pos + 1, pos + n) \o buf
          /\ pos' = pos + n
    /\ callReads' = callReads + 1
    /\ rpc' = "decode"
    /\ UNCHANGED <<decoder, stream, rres, out, ncalls, rerrs, decErr>>

\* self.inner.read(&mut src)? returns Ok(n), n > 0, then extend_from_slice
ReadData ==
    /\ rpc = "read"
    /\ callReads < MaxReads
    /\ pos < Len(stream)
    /\ \E n \in 1..(Len(stream) - pos) :
          /\ bytes_read' = n
          /\ buf' = buf \o SubSeq(stream, pos + 1, pos + n)
          /\ pos' = pos + n
    /\ callReads' = callReads + 1
    /\ rpc' = "decode"
    /\ UNCHANGED <<decoder, stream, rres, out, ncalls, rerrs, decErr>>

\* self.inner.read(&mut src)? returns Ok(0): the source is at end of stream
ReadEof ==
    /\ rpc = "read"
    /\ callReads < MaxReads
    /\ pos = Len(stream)
    /\ bytes_read' = 0
    /\ buf' = buf \o << >>
    /\ callReads' = callReads + 1
    /\ rpc' = "decode"
    /\ UNCHANGED <<decoder, stream, pos, rres, out, ncalls, rerrs, decErr>>

\* Mutant of ReadErr: the accumulator is dropped when the read fails
ReadErrDropsBuf ==
    /\ rpc = "read"
    /\ rerrs < MaxReadErrs
    /\ rerrs' = rerrs + 1
    /\ rres' = [kind |-> "IoErr", item |-> NoItem]
    /\ rpc' = "idle"
    /\ buf' = << >>
    /\ UNCHANGED <<decoder, stream, pos, bytes_read, out, ncalls, callReads,
                   decErr>>

\* self.inner.read(&mut src)? returns Err: the ? returns it from framed_read
ReadErr ==
    /\ rpc = "read"
    /\ rerrs < MaxReadErrs
    /\ rerrs' = rerrs + 1
    /\ rres' = [kind |-> "IoErr", item |-> NoItem]
    /\ rpc' = "idle"
    /\ UNCHANGED <<decoder, stream, pos, buf, bytes_read, out, ncalls,
                   callReads, decErr>>

\* Mutant of DecodeStep: the accumulator is reset when a message is returned
DecodeStepDropRest ==
    /\ rpc = "decode"
    /\ LET d == Decode(decoder, buf) IN
         CASE d.res = "Some" ->
                /\ buf' = << >>
                /\ rres' = [kind |-> "Ok", item |-> d.item]
                /\ out' = Append(out, d.item)
                /\ rpc' = "idle"
                /\ decErr' = decErr
           [] d.res = "None" ->
                /\ buf' = d.buf
                /\ rpc' = "read"
                /\ UNCHANGED <<rres, out, decErr>>
           [] d.res = "Err" ->
                /\ buf' = d.buf
                /\ rres' = [kind |-> "DecodeErr", item |-> NoItem]
                /\ out' = Append(out, NoItem)
                /\ rpc' = "idle"
                /\ decErr' = TRUE
    /\ UNCHANGED <<decoder, stream, pos, bytes_read, ncalls, callReads, rerrs>>

\* Mutant of DecodeStep: the accumulator is reset when the decoder reports
\* Incomplete
DecodeStepResetOnNone ==
    /\ rpc = "decode"
    /\ LET d == Decode(decoder, buf) IN
         CASE d.res = "Some" ->
                /\ buf' = d.buf
                /\ rres' = [kind |-> "Ok", item |-> d.item]
                /\ out' = Append(out, d.item)
                /\ rpc' = "idle"
                /\ decErr' = decErr
           [] d.res = "None" ->
                /\ buf' = << >>
                /\ rpc' = "read"
                /\ UNCHANGED <<rres, out, decErr>>
           [] d.res = "Err" ->
                /\ buf' = d.buf
                /\ rres' = [kind |-> "DecodeErr", item |-> NoItem]
                /\ out' = Append(out, NoItem)
                /\ rpc' = "idle"
                /\ decErr' = TRUE
    /\ UNCHANGED <<decoder, stream, pos, bytes_read, ncalls, callReads, rerrs>>

\* Mutant of DecodeStep: after a decoder error the accumulator is emptied to
\* resynchronise
DecodeStepResyncOnErr ==
    /\ rpc = "decode"
    /\ LET d == Decode(decoder, buf) IN
         CASE d.res = "Some" ->
                /\ buf' = d.buf
                /\ rres' = [kind |-> "Ok", item |-> d.item]
                /\ out' = Append(out, d.item)
                /\ rpc' = "idle"
                /\ decErr' = decErr
           [] d.res = "None" ->
                /\ buf' = d.buf
                /\ rpc' = "read"
                /\ UNCHANGED <<rres, out, decErr>>
           [] d.res = "Err" ->
                /\ buf' = << >>
                /\ rres' = [kind |-> "DecodeErr", item |-> NoItem]
                /\ out' = Append(out, NoItem)
                /\ rpc' = "idle"
                /\ decErr' = TRUE
    /\ UNCHANGED <<decoder, stream, pos, bytes_read, ncalls, callReads, rerrs>>

\* Mutant of DecodeStep: an Incomplete on an empty accumulator is returned
\* as an error
DecodeStepErrOnEmpty ==
    /\ rpc = "decode"
    /\ LET d == Decode(decoder, buf) IN
         CASE d.res = "Some" ->
                /\ buf' = d.buf
                /\ rres' = [kind |-> "Ok", item |-> d.item]
                /\ out' = Append(out, d.item)
                /\ rpc' = "idle"
                /\ decErr' = decErr
           [] d.res = "None" /\ buf # << >> ->
                /\ buf' = d.buf
                /\ rpc' = "read"
                /\ UNCHANGED <<rres, out, decErr>>
           [] d.res = "None" /\ buf = << >> ->
                /\ buf' = d.buf
                /\ rres' = [kind |-> "IoErr", item |-> NoItem]
                /\ rpc' = "idle"
                /\ UNCHANGED <<out, decErr>>
           [] d.res = "Err" ->
                /\ buf' = d.buf
                /\ rres' = [kind |-> "DecodeErr", item |-> NoItem]
                /\ out' = Append(out, NoItem)
                /\ rpc' = "idle"
                /\ decErr' = TRUE
    /\ UNCHANGED <<decoder, stream, pos, bytes_read, ncalls, callReads, rerrs>>

\* match self.decoder.decode(&mut self.buf) { Some => return, None => continue,
\* Err => return }
DecodeStep ==
    /\ rpc = "decode"
    /\ LET d == Decode(decoder, buf) IN
         /\ buf' = d.buf
         /\ CASE d.res = "Some" ->
                   /\ rres' = [kind |-> "Ok", item |-> d.item]
                   /\ out' = Append(out, d.item)
                   /\ rpc' = "idle"
                   /\ decErr' = decErr
              [] d.res = "None" ->
                   /\ rpc' = "read"
                   /\ UNCHANGED <<rres, out, decErr>>
              [] d.res = "Err" ->
                   /\ rres' = [kind |-> "DecodeErr", item |-> NoItem]
                   /\ out' = Append(out, NoItem)
                   /\ rpc' = "idle"
                   /\ decErr' = TRUE
    /\ UNCHANGED <<decoder, stream, pos, bytes_read, ncalls, callReads, rerrs>>

---------------------------------------------------------------------------
\* TestCodec::encode: [res, dst] where dst is the buffer after the call
TestEncode(m, d) ==
    CASE m.tag = "U8" -> [res |-> "Ok", dst |-> d \o << 1 >> \o << m.val % 256 >>]
      [] m.tag = "U16" -> [res |-> "Ok", dst |-> d \o << 2 >> \o put_u16(m.val)]
      [] OTHER -> [res |-> "Err", dst |-> d]

\* An Encoder that fails after it has already put bytes into dst: it writes
\* a length byte for the item it cannot encode and then returns Err.
PartialEncode(m, d) ==
    IF m.tag \in {"U8", "U16"} THEN TestEncode(m, d)
    ELSE [res |-> "Err", dst |-> d \o << 3 >>]

\* self.encoder.encode(item, &mut dst)
Encode(e, m, d) == IF e = "TestCodec" THEN TestEncode(m, d) ELSE PartialEncode(m, d)

Items == {U8(v) : v \in U8Vals} \cup {U16(v) : v \in U16Vals} \cup {Unrecognised}

\* FramedWrite::new over an empty sink
NewWrite(e) ==
    /\ encoder = e
    /\ wpc = "idle"
    /\ item = NoItem
    /\ dst = << >>
    /\ sink = << >>
    /\ sinkOps = << >>
    /\ wres = "none"
    /\ sent = << >>
    /\ wcalls = 0
    /\ sink0 = << >>
    /\ accepted = 0

\* Mutant of WriteCall: the bytes the encoder left in dst are pushed to the
\* sink before the encoder's error is returned
WriteCallWritesOnErr(m) ==
    /\ wpc = "idle"
    /\ wcalls < MaxWCalls
    /\ wcalls' = wcalls + 1
    /\ item' = m
    /\ sink0' = sink
    /\ accepted' = 0
    /\ LET e == Encode(encoder, m, << >>) IN
         /\ dst' = e.dst
         /\ IF e.res = "Ok"
            THEN wpc' = "write" /\ wres' = wres /\ sink' = sink
            ELSE wpc' = "idle" /\ wres' = "EncodeErr" /\ sink' = sink \o e.dst
    /\ UNCHANGED <<encoder, sinkOps, sent>>

\* Mutant of WriteCall: dst is a buffer kept across calls instead of a fresh
\* one
WriteCallReusesDst(m) ==
    /\ wpc = "idle"
    /\ wcalls < MaxWCalls
    /\ wcalls' = wcalls + 1
    /\ item' = m
    /\ sink0' = sink
    /\ accepted' = 0
    /\ LET e == Encode(encoder, m, dst) IN
         /\ dst' = e.dst
         /\ IF e.res = "Ok"
            THEN wpc' = "write" /\ wres' = wres
            ELSE wpc' = "idle" /\ wres' = "EncodeErr"
    /\ UNCHANGED <<encoder, sink, sinkOps, sent>>

\* entry of framed_write: let mut dst = BytesMut::with_capacity(..);
\* self.encoder.encode(item, &mut dst)?;
WriteCall(m) ==
    /\ wpc = "idle"
    /\ wcalls < MaxWCalls
    /\ wcalls' = wcalls + 1
    /\ item' = m
    /\ sink0' = sink
    /\ accepted' = 0
    /\ LET e == Encode(encoder, m, << >>) IN
         /\ dst' = e.dst
         /\ IF e.res = "Ok"
            THEN wpc' = "write" /\ wres' = wres
            ELSE wpc' = "idle" /\ wres' = "EncodeErr"
    /\ UNCHANGED <<encoder, sink, sinkOps, sent>>

\* The byte counts Write::write may return for a buffer of len bytes
Accepts(len) == IF len = 0 THEN {0} ELSE 1..len

\* self.inner.write(&dst[..])? returns Ok(n); n is dropped
SinkWrite ==
    /\ wpc = "write"
    /\ \E n \in Accepts(Len(dst)) :
          /\ sink' = sink \o SubSeq(dst, 1, n)
          /\ accepted' = n
    /\ sinkOps' = Append(sinkOps, [op |-> "write", call |-> wcalls])
    /\ wpc' = "flush"
    /\ UNCHANGED <<encoder, item, dst, wres, sent, wcalls, sink0>>

\* Mutant of SinkWriteErr: the sink is flushed although the write failed
SinkWriteErrFlushes ==
    /\ wpc = "write"
    /\ sinkOps' = sinkOps \o << [op |-> "write", call |-> wcalls],
                               [op |-> "flush", call |-> wcalls] >>
    /\ wres' = "IoErr"
    /\ wpc' = "idle"
    /\ UNCHANGED <<encoder, item, dst, sink, sent, wcalls, sink0, accepted>>

\* self.inner.write(&dst[..])? returns Err: the ? returns it from framed_write
SinkWriteErr ==
    /\ wpc = "write"
    /\ sinkOps' = Append(sinkOps, [op |-> "write", call |-> wcalls])
    /\ wres' = "IoErr"
    /\ wpc' = "idle"
    /\ UNCHANGED <<encoder, item, dst, sink, sent, wcalls, sink0, accepted>>

\* self.inner.flush() returns Ok(()), which is the result of framed_write
SinkFlush ==
    /\ wpc = "flush"
    /\ sinkOps' = Append(sinkOps, [op |-> "flush", call |-> wcalls])
    /\ wres' = "Ok"
    /\ sent' = Append(sent, item)
    /\ wpc' = "idle"
    /\ UNCHANGED <<encoder, item, dst, sink, wcalls, sink0, accepted>>

\* self.inner.flush() returns Err, which is the result of framed_write
SinkFlushErr ==
    /\ wpc = "flush"
    /\ sinkOps' = Append(sinkOps, [op |-> "flush", call |-> wcalls])
    /\ wres' = "IoErr"
    /\ wpc' = "idle"
    /\ UNCHANGED <<encoder, item, dst, sink, sent, wcalls, sink0, accepted>>

---------------------------------------------------------------------------
\* Source streams: every byte sequence of at most MaxStream bytes
RECURSIVE SeqsUpTo(_, _)
SeqsUpTo(S, n) ==
    IF n = 0 THEN {<< >>}
    ELSE LET shorter == SeqsUpTo(S, n - 1)
         IN  shorter \cup {Append(s, b) : s \in {t \in shorter : Len(t) = n - 1}, b \in S}

Streams == SeqsUpTo(ByteVals, MaxStream)
Decoders == {"TestCodec", "StrictCodec"}
Encoders == {"TestCodec", "PartialCodec"}

\* A reader that has not been constructed yet
NoRead ==
    /\ decoder \in Decoders
    /\ stream = << >>
    /\ pos = 0
    /\ buf = << >>
    /\ rpc = "none"
    /\ bytes_read = 0
    /\ rres = [kind |-> "none", item |-> NoItem]
    /\ out = << >>
    /\ ncalls = 0
    /\ callReads = 0
    /\ rerrs = 0
    /\ decErr = FALSE

\* ---- the reader alone: FramedRead::new(&r[..], decoder), as in the tests
\* No Framed was built: the reader and the writer stand alone
NoPair ==
    /\ owner = "halves"
    /\ splitBuf = << >>

\* No second loop runs
NoAlt ==
    /\ log = << >>
    /\ results = << >>
    /\ apc = "idle"
    /\ abuf = << >>
    /\ ai = 0
    /\ aresults = << >>

InitRead ==
    /\ \E s \in Streams, d \in Decoders : NewRead(s, d)
    /\ NewWrite("TestCodec")
    /\ NoPair
    /\ NoAlt

NextRead ==
    \/ ReadCall /\ UNCHANGED <<wvars, fvars, avars>>
    \/ ReadData /\ UNCHANGED <<wvars, fvars, avars>>
    \/ ReadEof /\ UNCHANGED <<wvars, fvars, avars>>
    \/ ReadErr /\ UNCHANGED <<wvars, fvars, avars>>
    \/ DecodeStep /\ UNCHANGED <<wvars, fvars, avars>>

SpecRead == InitRead /\ [][NextRead]_vars

\* ---- the writer alone: FramedWrite::new(&mut buf, encoder), as in the tests
InitWrite ==
    /\ NoRead
    /\ \E e \in Encoders : NewWrite(e)
    /\ NoPair
    /\ NoAlt

NextWrite ==
    \/ \E m \in Items : WriteCall(m) /\ UNCHANGED <<rvars, fvars, avars>>
    \/ SinkWrite /\ UNCHANGED <<rvars, fvars, avars>>
    \/ SinkWriteErr /\ UNCHANGED <<rvars, fvars, avars>>
    \/ SinkFlush /\ UNCHANGED <<rvars, fvars, avars>>
    \/ SinkFlushErr /\ UNCHANGED <<rvars, fvars, avars>>

SpecWrite == InitWrite /\ [][NextWrite]_vars

\* ---- round trip: a writer fills a sink, then FramedRead::new is given
\* ---- exactly the bytes of the sink as its source
FeedBack ==
    /\ rpc = "none"
    /\ wpc = "idle"
    /\ wcalls = 1
    /\ stream' = sink
    /\ rpc' = "idle"
    /\ UNCHANGED <<decoder, pos, buf, bytes_read, rres, out, ncalls, callReads,
                   rerrs, decErr>>
    /\ UNCHANGED <<wvars, fvars, avars>>

NextRoundTrip ==
    \/ rpc = "none" /\ (wcalls = 0 \/ wpc # "idle") /\ NextWrite
    \/ FeedBack
    \/ NextRead

SpecRoundTrip == InitWrite /\ [][NextRoundTrip]_vars

\* ---- the pair: Framed::new(&reader[..], &mut writer, TestCodec, TestCodec),
\* ---- as in tests::framed, and its split into the two halves
DuplexStreams == {<< 2, 4, 210 >>, << 1, 128, 2, 1, 128 >>, << 3, 1, 128, 0 >>}
DuplexItems == {U16(1234), Unrecognised}

Init ==
    /\ \E s \in DuplexStreams : NewRead(s, "TestCodec")
    /\ NewWrite("TestCodec")
    /\ owner = "pair"
    /\ splitBuf = << >>
    /\ NoAlt

\* Framed::framed_read: self.reader.framed_read(); it holds the &mut borrow
\* of the pair, so it runs only between framed_write calls
PairRead ==
    /\ owner = "pair"
    /\ wpc = "idle"
    /\ (ReadCall \/ ReadData \/ ReadEof \/ ReadErr \/ DecodeStep)
    /\ UNCHANGED <<wvars, fvars, avars>>

\* Mutant of PairWrite: the writer's scratch buffer is the reader's
\* accumulator, which every send clears
PairWriteClearsBuf ==
    /\ owner = "pair"
    /\ rpc = "idle"
    /\ \/ \E m \in DuplexItems : WriteCall(m)
       \/ SinkWrite
       \/ SinkWriteErr
       \/ SinkFlush
       \/ SinkFlushErr
    /\ buf' = << >>
    /\ UNCHANGED <<decoder, stream, pos, rpc, bytes_read, rres, out, ncalls,
                   callReads, rerrs, decErr, fvars, avars>>

\* Framed::framed_write: self.writer.framed_write(item)
PairWrite ==
    /\ owner = "pair"
    /\ rpc = "idle"
    /\ \/ \E m \in DuplexItems : WriteCall(m)
       \/ SinkWrite
       \/ SinkWriteErr
       \/ SinkFlush
       \/ SinkFlushErr
    /\ UNCHANGED <<rvars, fvars, avars>>

\* Mutant of Split: the reader half is built anew over the source, with an
\* empty accumulator
SplitFreshReader ==
    /\ owner = "pair"
    /\ rpc = "idle" /\ wpc = "idle"
    /\ owner' = "halves"
    /\ buf' = << >>
    /\ splitBuf' = buf'
    /\ UNCHANGED <<decoder, stream, pos, rpc, bytes_read, rres, out, ncalls,
                   callReads, rerrs, decErr>>
    /\ UNCHANGED <<wvars, avars>>

\* Framed::split: (self.reader, self.writer)
Split ==
    /\ owner = "pair"
    /\ rpc = "idle" /\ wpc = "idle"
    /\ owner' = "halves"
    /\ splitBuf' = buf
    /\ UNCHANGED <<rvars, wvars, avars>>

\* After split the halves are used independently, in any interleaving
HalfRead ==
    /\ owner = "halves"
    /\ (ReadCall \/ ReadData \/ ReadEof \/ ReadErr \/ DecodeStep)
    /\ UNCHANGED <<wvars, fvars, avars>>

HalfWrite ==
    /\ owner = "halves"
    /\ \/ \E m \in DuplexItems : WriteCall(m)
       \/ SinkWrite
       \/ SinkWriteErr
       \/ SinkFlush
       \/ SinkFlushErr
    /\ UNCHANGED <<rvars, fvars, avars>>

Next == PairRead \/ PairWrite \/ Split \/ HalfRead \/ HalfWrite

Spec == Init /\ [][Next]_vars

---------------------------------------------------------------------------
\* The loop of the design notes' open question, run beside framed_read over
\* the same source: it attempts extraction first and reads only when the
\* decoder reports Incomplete. Its k-th read returns what the k-th
\* inner.read of framed_read returned.
ReadEntry(d) == [err |-> FALSE, data |-> d]
ErrEntry == [err |-> TRUE, data |-> << >>]

\* What a step of framed_read adds to the record of reads and of results
Record ==
    /\ log' = IF rpc = "read"
              THEN Append(log, IF rpc' = "idle" THEN ErrEntry
                               ELSE ReadEntry(SubSeq(stream, pos + 1, pos')))
              ELSE log
    /\ results' = IF rpc # "idle" /\ rpc' = "idle" THEN Append(results, rres')
                  ELSE results

\* entry of the extraction-first loop
AltCall ==
    /\ apc = "idle"
    /\ Len(aresults) < MaxCalls
    /\ apc' = "decode"
    /\ UNCHANGED <<abuf, ai, aresults>>

\* decode, then the same match as framed_read
AltDecode ==
    /\ apc = "decode"
    /\ LET d == Decode(decoder, abuf) IN
         /\ abuf' = d.buf
         /\ CASE d.res = "Some" ->
                   /\ aresults' = Append(aresults, [kind |-> "Ok", item |-> d.item])
                   /\ apc' = "idle"
              [] d.res = "None" ->
                   /\ apc' = "read"
                   /\ aresults' = aresults
              [] d.res = "Err" ->
                   /\ aresults' = Append(aresults, [kind |-> "DecodeErr", item |-> NoItem])
                   /\ apc' = "idle"
    /\ ai' = ai

\* read after Incomplete: inner.read(&mut src)? and extend_from_slice
AltRead ==
    /\ apc = "read"
    /\ ai < Len(log)
    /\ ai' = ai + 1
    /\ LET e == log[ai + 1] IN
         IF e.err
         THEN /\ aresults' = Append(aresults, [kind |-> "IoErr", item |-> NoItem])
              /\ apc' = "idle"
              /\ abuf' = abuf
         ELSE /\ abuf' = abuf \o e.data
              /\ apc' = "decode"
              /\ aresults' = aresults

\* Sources of the comparison: two frames back to back, a frame of unknown
\* length byte before or after a good one, an unfinished last frame
EquivStreams ==
    {<< 1, 0, 1, 1 >>, << 0, 1, 1 >>, << 1, 1, 2, 0 >>, << 2, 0, 1, 0 >>,
     << 3, 0, 0, 0 >>, << 1, 2 >>, << 0, 0, 1, 3 >>, << 1, 3, 0, 2 >>,
     << 1, 0, 1, 1, 1, 2 >>, << 2, 0, 1, 1, 3 >>, << 0, 1, 1, 0 >>}

InitEquiv ==
    /\ \E s \in EquivStreams, d \in Decoders : NewRead(s, d)
    /\ NewWrite("TestCodec")
    /\ NoPair
    /\ NoAlt

\* The extraction-first loop has nothing to do: it has returned from as
\* many calls as framed_read, or waits for a read not made yet
AltSettled ==
    \/ apc = "idle" /\ Len(aresults) >= Len(results)
    \/ apc = "read" /\ ai = Len(log)

\* The two loops are run call by call: framed_read makes a call, then the
\* extraction-first loop makes its call over the reads recorded so far
NextEquiv ==
    \/ AltSettled /\ ReadCall /\ Record
          /\ UNCHANGED <<apc, abuf, ai, aresults, wvars, fvars>>
    \/ ReadData /\ Record /\ UNCHANGED <<apc, abuf, ai, aresults, wvars, fvars>>
    \/ ReadEof /\ Record /\ UNCHANGED <<apc, abuf, ai, aresults, wvars, fvars>>
    \/ ReadErr /\ Record /\ UNCHANGED <<apc, abuf, ai, aresults, wvars, fvars>>
    \/ DecodeStep /\ Record /\ UNCHANGED <<apc, abuf, ai, aresults, wvars, fvars>>
    \/ rpc = "idle" /\ Len(aresults) < Len(results) /\ AltCall
          /\ UNCHANGED <<rvars, wvars, fvars, log, results>>
    \/ rpc = "idle" /\ AltDecode /\ UNCHANGED <<rvars, wvars, fvars, log, results>>
    \/ rpc = "idle" /\ AltRead /\ UNCHANGED <<rvars, wvars, fvars, log, results>>

SpecEquiv == InitEquiv /\ [][NextEquiv]_vars

---------------------------------------------------------------------------
\* Reference framing of a byte stream, used to state the claims: the
\* complete length-prefixed frames of s, in stream order.
RECURSIVE Frames(_)
Frames(s) ==
    IF Len(s) = 0 \/ Len(s) < s[1] + 1 THEN << >>
    ELSE << SubSeq(s, 1, s[1] + 1) >> \o Frames(Tail2(s, s[1] + 1))

\* The outcome the decoder d gives for the single frame f
ItemOf(d, f) == LET r == Decode(d, f) IN IF r.res = "Some" THEN r.item ELSE NoItem
Produces(d, f) == Decode(d, f).res = "Some"

\* Total length of the first k frames of fs
RECURSIVE FramesLen(_, _)
FramesLen(fs, k) == IF k = 0 THEN 0 ELSE Len(fs[k]) + FramesLen(fs, k - 1)

\* Concatenation of the TestCodec encodings of the items of ms
RECURSIVE EncodeAll(_)
EncodeAll(ms) ==
    IF ms = << >> THEN << >>
    ELSE TestEncode(Head(ms), << >>).dst \o EncodeAll(Tail(ms))

---------------------------------------------------------------------------
\* C1: whenever framed_write returns success, every byte of the encoded
\* buffer has been accepted by the sink during that call (the byte count
\* accepted equals the length of the encoded buffer), also for a sink whose
\* write accepts fewer bytes than offered.
C1_AllBytesAccepted ==
    (wpc = "idle" /\ wres = "Ok") =>
        (accepted = Len(dst) /\ sink = sink0 \o dst)

\* C2: a framed_read call that has seen a zero-byte read while the decoder
\* reports Incomplete returns an error; it does not go round the loop to
\* read again.
C2_EofIsTerminal ==
    ~(rpc = "read" /\ callReads >= 1 /\ bytes_read = 0)

\* C3: when one read delivers two complete messages, the first call returns
\* the first message and leaves the bytes after it (exactly the second frame
\* when the read delivered exactly the two frames) in the accumulator, and
\* the second call, after its own read, returns the second message.
C3_TwoInOneRead ==
    LET fs == Frames(stream) IN
    (Len(fs) >= 2 /\ Produces(decoder, fs[1]) /\ Produces(decoder, fs[2]) /\ rerrs = 0) =>
        LET n1 == Len(fs[1])
            n2 == Len(fs[2])
            m1 == ItemOf(decoder, fs[1])
            m2 == ItemOf(decoder, fs[2])
        IN
        /\ (ncalls = 1 /\ callReads = 1 /\ bytes_read >= n1 + n2 /\ rpc # "decode") =>
              /\ rpc = "idle"
              /\ rres = [kind |-> "Ok", item |-> m1]
              /\ out = << m1 >>
              /\ buf = SubSeq(stream, n1 + 1, pos)
              /\ (bytes_read = n1 + n2 => buf = fs[2])
        /\ (ncalls = 2 /\ callReads = 1
                /\ pos - bytes_read >= n1 + n2 /\ rpc # "decode") =>
              /\ rpc = "idle"
              /\ rres = [kind |-> "Ok", item |-> m2]
              /\ out = << m1, m2 >>
              /\ buf = SubSeq(stream, n1 + n2 + 1, pos)

C3_Witness ==
    LET fs == Frames(stream) IN
    /\ Len(fs) >= 2
    /\ ncalls = 2 /\ callReads = 1 /\ rpc = "idle"
    /\ pos - bytes_read = Len(fs[1]) + Len(fs[2])
    /\ Len(out) = 2 /\ out[1] # out[2] /\ out[1].tag = "U8" /\ out[2].tag = "U8"

\* C4: with a decoder that is Incomplete below n bytes and Produced at n,
\* whatever the chunking, the first message is returned right after the read
\* that delivers the n-th byte (not before, not later), it is the message of
\* the first n bytes, and the bytes that read delivered beyond the n-th stay
\* in the accumulator.
C4_ProducedAtNthByte ==
    LET fs == Frames(stream) IN
    (Len(fs) >= 1 /\ Produces(decoder, fs[1])) =>
        LET n == Len(fs[1]) IN
        /\ (out = << >> /\ rpc = "read") => pos < n
        /\ (out = << >> /\ rpc = "idle") => rres.kind \in {"none", "IoErr"}
        /\ (Len(out) = 1 /\ rpc = "idle" /\ rres.kind = "Ok") =>
              /\ out = << ItemOf(decoder, fs[1]) >>
              /\ pos - bytes_read < n
              /\ n <= pos
              /\ buf = SubSeq(stream, n + 1, pos)

C4_Witness ==
    LET fs == Frames(stream) IN
    /\ Len(fs) >= 1
    /\ Len(out) = 1 /\ rpc = "idle" /\ rres.kind = "Ok"
    /\ out[1].tag = "U16"
    /\ ncalls = 1 /\ callReads = 3 /\ bytes_read = 2 /\ pos = 4
    /\ buf = << stream[4] >>

\* C5: for an item m that the encoder accepts, a reader whose source is
\* exactly the bytes framed_write(m) put into the sink returns m: once all
\* those bytes have been delivered and decoded a message has been returned,
\* and the first message returned equals m.
C5_RoundTrip ==
    (rpc # "none" /\ wres = "Ok") =>
        /\ (Len(out) >= 1 => out[1] = item)
        /\ ~(rpc = "read" /\ callReads >= 1 /\ pos = Len(stream) /\ out = << >>)

\* C6: when the encoder fails, framed_write returns that error without any
\* write or flush on the sink in that call, and the sink holds what it held
\* before the call, also when the encoder had already put bytes into dst.
C6_EncodeErrLeavesSink ==
    (wpc = "idle" /\ wres = "EncodeErr") =>
        /\ sink = sink0
        /\ \A i \in 1..Len(sinkOps) : sinkOps[i].call # wcalls

C6_Witness ==
    /\ wpc = "idle" /\ wres = "EncodeErr"
    /\ dst # << >>
    /\ wcalls = 2 /\ sink # << >>

\* C7: a decoder call happens only as the step right after a read of the
\* same framed_read call whose bytes were appended to the accumulator; a
\* call never starts with a decode, also when the accumulator already holds
\* a complete message.
C7_ReadBeforeDecode ==
    [][ /\ (rpc' = "decode" =>
              /\ rpc = "read"
              /\ callReads' = callReads + 1
              /\ pos' = pos + bytes_read'
              /\ buf' = buf \o SubSeq(stream, pos + 1, pos'))
        /\ (out' # out => (rpc = "decode" /\ callReads >= 1))
        /\ (rpc = "decode" => callReads >= 1)
      ]_vars

C7_Witness ==
    /\ rpc = "decode" /\ ncalls = 2 /\ callReads = 1
    /\ Frames(SubSeq(buf, 1, Len(buf) - bytes_read)) # << >>

\* C8: after any sequence of successful framed_write calls the sink holds
\* the concatenation of the encodings of the items in call order, and on the
\* sink every call's write comes before its flush and both come before any
\* operation of the next call.
C8_SinkIsConcat ==
    (wpc = "idle" /\ Len(sent) = wcalls) =>
        /\ sink = EncodeAll(sent)
        /\ Len(sinkOps) = 2 * wcalls
        /\ \A c \in 1..wcalls :
              /\ sinkOps[2 * c - 1] = [op |-> "write", call |-> c]
              /\ sinkOps[2 * c] = [op |-> "flush", call |-> c]

\* C9: the outcomes returned by successive framed_read calls are those of
\* the frames of the stream in stream order, one per frame from the first
\* frame on, and the accumulator holds exactly the delivered bytes that
\* follow the frames returned so far.
C9_InStreamOrder ==
    LET fs == Frames(stream) IN
    /\ Len(out) <= Len(fs)
    /\ \A k \in 1..Len(out) : out[k] = ItemOf(decoder, fs[k])
    /\ Len(out) <= Len(fs) => buf = SubSeq(stream, FramesLen(fs, Len(out)) + 1, pos)

C9_Witness ==
    /\ Len(out) = 3 /\ ncalls = 3 /\ rpc = "idle"
    /\ out[1].tag = "Unrecognised" /\ out[2].tag = "U8" /\ out[3].tag = "Unrecognised"

\* C10: once decode has returned an error the source is closed: no later
\* framed_read call gets bytes (or end of stream) from the source, and no
\* message is returned after the error.
C10_DecodeErrTerminal ==
    decErr => (rpc # "decode" /\ out[Len(out)] = NoItem)

\* C11: when the decoder returns an error, framed_read returns that error in
\* the same step: no read, no second decode, no resynchronisation; the
\* accumulator is what the decoder left (the delivered bytes after the
\* failed frame).
C11_DecodeErrReturned ==
    [][ (rpc = "decode" /\ Decode(decoder, buf).res = "Err") =>
          LET fs == Frames(stream) IN
          /\ rpc' = "idle"
          /\ rres' = [kind |-> "DecodeErr", item |-> NoItem]
          /\ out' = Append(out, NoItem)
          /\ pos' = pos /\ callReads' = callReads /\ bytes_read' = bytes_read
          /\ buf' = SubSeq(stream, FramesLen(fs, Len(out')) + 1, pos)
      ]_vars

C11_Witness ==
    /\ rpc = "idle" /\ rres.kind = "DecodeErr"
    /\ buf # << >> /\ Len(out) = 2 /\ out[1] # NoItem

\* C14: the accumulator is always the tail of the bytes delivered so far, in
\* stream order, what is missing at its front being exactly the frames the
\* decoder consumed; a read appends its bytes at the back, a decode removes
\* bytes from the front only, and no other step of framed_read changes it.
C14_AccumulatorFifo ==
    /\ [](/\ Len(buf) <= pos
          /\ buf = SubSeq(stream, pos - Len(buf) + 1, pos)
          /\ pos - Len(buf) = FramesLen(Frames(stream), Len(out)))
    /\ [][ /\ (pos' # pos => buf' = buf \o SubSeq(stream, pos + 1, pos'))
           /\ (rpc = "read" /\ pos' = pos => buf' = buf)
           /\ (rpc = "idle" => buf' = buf)
           /\ (rpc = "decode" =>
                 /\ Len(buf') <= Len(buf)
                 /\ buf' = Tail2(buf, Len(buf) - Len(buf')))
         ]_vars

C14_Witness ==
    /\ rpc = "decode" /\ ncalls = 2 /\ callReads = 2
    /\ pos - Len(buf) > 0 /\ Len(buf) >= 2 /\ bytes_read = 1

\* C16: when the read fails, framed_read returns the I/O error in that step
\* without a decode; the accumulator, the source position and the outcomes
\* are as before the read, and a later call still returns the message of
\* the bytes that were in the accumulator.
C16_ReadErrKeepsBuf ==
    /\ [][ rerrs' # rerrs =>
             /\ rpc = "read" /\ rpc' = "idle"
             /\ rres' = [kind |-> "IoErr", item |-> NoItem]
             /\ buf' = buf /\ pos' = pos /\ out' = out
         ]_vars
    /\ []((rpc = "idle" /\ rres.kind = "Ok" /\ rerrs >= 1) =>
            /\ Len(out) <= Len(Frames(stream))
            /\ rres.item = ItemOf(decoder, Frames(stream)[Len(out)]))

C16_Witness ==
    /\ rerrs = 1 /\ ncalls = 2 /\ rpc = "idle" /\ rres.kind = "Ok"
    /\ Len(out) = 1 /\ out[1].tag = "U16"
    /\ callReads = 1 /\ bytes_read = 1 /\ pos = 3

\* C18: a decode on an empty accumulator that reports Incomplete is no
\* error: the call returns nothing and goes back to read.
C18_EmptyIncompleteContinues ==
    [][ (rpc = "decode" /\ buf = << >>) =>
          (rpc' = "read" /\ rres' = rres /\ out' = out /\ buf' = << >>)
      ]_vars

C18_Witness ==
    /\ rpc = "decode" /\ buf = << >> /\ callReads = 2 /\ bytes_read = 0
    /\ rres.kind = "none"

\* The invocations on the sink made by framed_write call c, in order
OpsOf(ops, c) == SelectSeq(ops, LAMBDA o : o.call = c)

\* C15: a framed_write call returns success only from its flush, which is the
\* one flush of the call and comes after its write; a call that returns from
\* its write (the write failed) returns the error, has left the sink as it
\* was and has not flushed.
C15_FlushAfterWrite ==
    [][ /\ (wpc = "write" /\ wpc' = "idle") =>
              /\ wres' = "IoErr"
              /\ sink' = sink
              /\ OpsOf(sinkOps', wcalls) = << [op |-> "write", call |-> wcalls] >>
        /\ (wpc = "flush") =>
              /\ wpc' = "idle"
              /\ wres' \in {"Ok", "IoErr"}
              /\ sink' = sink
              /\ sinkOps' = Append(sinkOps, [op |-> "flush", call |-> wcalls])
        /\ (wpc # "idle" /\ wpc' = "idle" /\ wres' = "Ok") =>
              /\ wpc = "flush"
              /\ OpsOf(sinkOps', wcalls) = << [op |-> "write", call |-> wcalls],
                                              [op |-> "flush", call |-> wcalls] >>
      ]_vars

C15_Witness ==
    /\ wpc = "idle" /\ wres = "Ok" /\ wcalls = 2
    /\ sinkOps = << [op |-> "write", call |-> 1], [op |-> "write", call |-> 2],
                    [op |-> "flush", call |-> 2] >>

\* C17: the buffer offered to the sink is exactly the encoding of the item of
\* this call, and what the sink gains in a call is a prefix of it: nothing of
\* an earlier send, and nothing an earlier failed encoding left behind, is
\* part of a later send.
C17_FreshScratch ==
    /\ (wpc \in {"write", "flush"} => dst = EncodeAll(<< item >>))
    /\ ((wpc = "flush" \/ (wpc = "idle" /\ wres = "Ok")) =>
            sink = sink0 \o SubSeq(EncodeAll(<< item >>), 1, accepted))

C17_Witness ==
    /\ encoder = "PartialCodec" /\ wcalls = 2 /\ wpc = "flush"
    /\ sinkOps = << [op |-> "write", call |-> 2] >>
    /\ accepted = Len(dst) /\ item.tag = "U16"

\* C12: the halves of a pair share no mutable state. A step of framed_write
\* (on the pair or on the split writer) leaves the whole reader state
\* unchanged, source position, accumulator and decoder included; a step of
\* framed_read leaves the whole writer state unchanged, sink and encoder
\* included. So in every interleaving the messages read are those of the
\* frames of the stream in order, and the sink grows only by a prefix of the
\* encoding of the item being sent, as for each half alone.
C12_HalvesIndependent ==
    /\ [](LET fs == Frames(stream) IN
          /\ Len(out) <= Len(fs)
          /\ \A k \in 1..Len(out) : out[k] = ItemOf("TestCodec", fs[k])
          /\ (wpc \in {"write", "flush"} => dst = EncodeAll(<< item >>)))
    /\ [][ /\ (wvars' # wvars) =>
                 (rvars' = rvars /\ pos' = pos /\ buf' = buf /\ decoder' = decoder)
           /\ (rvars' # rvars) =>
                 (wvars' = wvars /\ sink' = sink /\ encoder' = encoder)
           /\ (sink' # sink) =>
                 /\ wpc = "write"
                 /\ \E n \in 1..Len(dst) : sink' = sink \o SubSeq(dst, 1, n)
         ]_vars

C12_Witness ==
    /\ owner = "halves"
    /\ rpc = "decode" /\ wpc = "flush"
    /\ ncalls = 2 /\ Len(out) = 1 /\ wcalls = 2
    /\ Len(sink) > 3

\* C19: split only transfers ownership. The step that splits the pair
\* changes nothing of the reader (source position, decoder and accumulator
\* included) and nothing of the writer, so the FramedRead it returns holds
\* the accumulator the pair had; whether or not a split has happened, the
\* messages read are those of the frames of the stream in order and the
\* accumulator holds exactly the delivered bytes not yet decoded, so bytes
\* read before the split are decoded by the calls after it.
C19_SplitKeepsReader ==
    /\ [](LET fs == Frames(stream) IN
          /\ Len(out) <= Len(fs)
          /\ \A k \in 1..Len(out) : out[k] = ItemOf(decoder, fs[k])
          /\ buf = SubSeq(stream, FramesLen(fs, Len(out)) + 1, pos))
    /\ [][ (owner' # owner) =>
              /\ owner = "pair" /\ owner' = "halves"
              /\ rvars' = rvars
              /\ wvars' = wvars
              /\ splitBuf' = buf
         ]_vars

C19_Witness ==
    /\ owner = "halves"
    /\ splitBuf = << 2, 1, 128 >>
    /\ ncalls = 2 /\ rpc = "idle"
    /\ out = << U8(128), U16(384) >>

\* C13: with the length-prefixed test codec, a frame [1, v] is read as
\* U8(v), a frame [2, hi, lo] as U16(256*hi + lo), and a frame of any other
\* length byte L with its L payload bytes present as the message
\* Unrecognised, the whole frame being removed from the accumulator; and a
\* successful framed_write of U8(v) has put [1, v], of U16(x) has put
\* [2, x div 256, x mod 256] into the sink.
C13_TestCodecVectors ==
    LET fs == Frames(stream) IN
    /\ Len(out) <= Len(fs)
    /\ \A k \in 1..Len(out) :
          LET f == fs[k] IN
          /\ (f[1] = 1) => (out[k] = [tag |-> "U8", val |-> f[2]])
          /\ (f[1] = 2) => (out[k] = [tag |-> "U16", val |-> 256 * f[2] + f[3]])
          /\ (f[1] \notin {1, 2}) => (out[k] = [tag |-> "Unrecognised", val |-> 0])
    /\ buf = SubSeq(stream, FramesLen(fs, Len(out)) + 1, pos)
    /\ (wpc = "idle" /\ wres = "Ok" /\ item.tag = "U8") =>
          sink = sink0 \o << 1, item.val >>
    /\ (wpc = "idle" /\ wres = "Ok" /\ item.tag = "U16") =>
          sink = sink0 \o << 2, item.val \div 256, item.val % 256 >>

\* The decoder outcomes (messages and decode errors) among call results
Outcomes(rs) == SelectSeq(rs, LAMBDA r : r.kind # "IoErr")
\* The sequences a and b agree wherever both are defined
Agree(a, b) == \A k \in 1..Len(a) : k <= Len(b) => a[k] = b[k]

=============================================================================
